---- MODULE Spec2Model ----
(***************************************************************************)
(* Model of the calendar_duration crate (src/src/lib.rs).                  *)
(*                                                                         *)
(* A date is a record [y, m, d] of the proleptic Gregorian calendar, as    *)
(* the chrono::NaiveDate and time::Date implementations of                 *)
(* CalendarDurationExt expose it through ymd / from_ymd / succ.            *)
(* CalendarDurationExt::calendar_duration_from is modelled one loop        *)
(* iteration at a time (EnterCall, YearIter, MonthIter, DayIter); the      *)
(* whole call is the iteration of these up to a return or a panic.         *)
(*                                                                         *)
(* Integer widths: m + 1 <= 13, months <= 12 and days <= 61 all fit the u8 *)
(* of the source, and y + 1 stays far inside i32 and inside the range of   *)
(* dates both date libraries represent, so no arithmetic wraps.            *)
(***************************************************************************)
EXTENDS Integers, Sequences, FiniteSets, TLC

VARIABLES self, other, order, later, earlier, y, m, d, next,
          years, months, days, pc, out

vars == <<self, other, order, later, earlier, y, m, d, next,
          years, months, days, pc, out>>

(***************************************************************************)
(* Bounds                                                                  *)
(***************************************************************************)
\* The input dates range over the first MonthSpan months from January 2024:
\* 15 months reach March 2025, across a leap and a non-leap February.
MonthSpan == 15

\* Largest years / months / days field of a CalendarDuration handed to Display.
MaxFmtYears == 3
MaxFmtMonths == 12
MaxFmtDays == 32

Years == 2024..(2024 + ((MonthSpan - 1) \div 12))

\* Days of the month of the input dates of the step-by-step specification.
StepDays == {1, 29, 30, 31}

(***************************************************************************)
(* The date capability (chrono::NaiveDate, time::Date)                     *)
(***************************************************************************)
\* Option::None of from_ymd, and the outcome of a panic!() / unwrap() on None.
None == [y |-> 0, m |-> 0, d |-> 0]
Panic == [y |-> -1, m |-> 0, d |-> 0]

IsLeapYear(yy) == (yy % 4 = 0 /\ yy % 100 # 0) \/ yy % 400 = 0

DaysInMonth(yy, mm) ==
    IF mm = 2 THEN (IF IsLeapYear(yy) THEN 29 ELSE 28)
    ELSE IF mm \in {4, 6, 9, 11} THEN 30
    ELSE 31

\* from_ymd: Some(date) if the date exists, None otherwise.
from_ymd(yy, mm, dd) ==
    IF mm \in 1..12 /\ dd >= 1 /\ dd <= DaysInMonth(yy, mm)
    THEN [y |-> yy, m |-> mm, d |-> dd]
    ELSE None

\* Option::unwrap
unwrap(o) == IF o = None THEN Panic ELSE o

\* succ: the next day.
succ(date) ==
    IF date.d < DaysInMonth(date.y, date.m)
    THEN [y |-> date.y, m |-> date.m, d |-> date.d + 1]
    ELSE IF date.m < 12
    THEN [y |-> date.y, m |-> date.m + 1, d |-> 1]
    ELSE [y |-> date.y + 1, m |-> 1, d |-> 1]

\* Ord on dates: a < b.
Lt(a, b) ==
    \/ a.y < b.y
    \/ a.y = b.y /\ a.m < b.m
    \/ a.y = b.y /\ a.m = b.m /\ a.d < b.d

\* Ord::cmp
cmp(a, b) == IF Lt(a, b) THEN "Less" ELSE IF a = b THEN "Equal" ELSE "Greater"

(***************************************************************************)
(* CalendarDurationExt::from_ymd_or_next                                   *)
(***************************************************************************)
from_ymd_or_next(yy, mm, dd) ==
    IF from_ymd(yy, mm, dd) # None THEN from_ymd(yy, mm, dd)
    ELSE IF mm = 2 /\ dd = 29 THEN unwrap(from_ymd(yy, 3, 1))
    ELSE IF dd = 31
         THEN IF mm = 12
              THEN unwrap(from_ymd(yy + 1, 1, 30))
              ELSE unwrap(from_ymd(yy, mm + 1, 30))
    ELSE Panic

(***************************************************************************)
(* CalendarDurationExt::calendar_duration_from                             *)
(*                                                                         *)
(* A frame holds the locals of one call and the place it has reached:      *)
(* "year", "month", "day" are the heads of the three loops, "done" is the  *)
(* return and "panic" the fatal fault of from_ymd_or_next.                 *)
(***************************************************************************)
\* Mutant of pick_later: the receiver is taken to be the later date.
pick_later_AlwaysSelf(a, b) == a

\* let (later, mut earlier) = if self > other { (self, other) } else { (other, self) };
pick_later(a, b) == IF Lt(b, a) THEN a ELSE b

pick_earlier(a, b) == IF Lt(b, a) THEN b ELSE a

\* Lines 54-63: order the dates, take the anchor's (y, m, d), years = 0.
EnterCall(a, b) ==
    [self |-> a, other |-> b, order |-> cmp(a, b),
     later |-> pick_later(a, b), earlier |-> pick_earlier(a, b),
     y |-> pick_earlier(a, b).y, m |-> pick_earlier(a, b).m,
     d |-> pick_earlier(a, b).d, next |-> None,
     years |-> 0, months |-> 0, days |-> 0, pc |-> "year", out |-> ""]

\* Mutant of YearIter: the loop breaks on `later <= next`, so a candidate
\* equal to `later` is left to the month loop.
YearIter_BreakOnEqual(f) ==
    LET cand == from_ymd_or_next(f.y + 1, f.m, f.d) IN
    IF cand = Panic THEN [f EXCEPT !.next = cand, !.pc = "panic"]
    ELSE IF Lt(f.later, cand) \/ f.later = cand
    THEN [f EXCEPT !.next = cand, !.pc = "month"]
    ELSE [f EXCEPT !.next = cand, !.years = f.years + 1, !.y = f.y + 1,
                   !.earlier = cand]

\* One iteration of the year loop, lines 64-72 (and `let mut months = 0`).
YearIter(f) ==
    LET cand == from_ymd_or_next(f.y + 1, f.m, f.d) IN
    IF cand = Panic THEN [f EXCEPT !.next = cand, !.pc = "panic"]
    ELSE IF Lt(f.later, cand) THEN [f EXCEPT !.next = cand, !.pc = "month"]
    ELSE [f EXCEPT !.next = cand, !.years = f.years + 1, !.y = f.y + 1,
                   !.earlier = cand]

\* Mutant of MonthIter: the loop tests `later < earlier`, the anchor, where
\* the source tests the candidate.
MonthIter_TestsAnchor(f) ==
    LET next_m == IF f.m + 1 = 13 THEN 1 ELSE f.m + 1
        next_y == IF f.m + 1 = 13 THEN f.y + 1 ELSE f.y
        cand == from_ymd_or_next(next_y, next_m, f.d) IN
    IF cand = Panic THEN [f EXCEPT !.next = cand, !.pc = "panic"]
    ELSE IF Lt(f.later, f.earlier) THEN [f EXCEPT !.next = cand, !.pc = "day"]
    ELSE [f EXCEPT !.next = cand, !.months = f.months + 1, !.y = next_y,
                   !.m = next_m, !.earlier = cand]

\* Mutant of MonthIter: the candidate is the first of the next month, not
\* the anchor's day of the month.
MonthIter_DayOne(f) ==
    LET next_m == IF f.m + 1 = 13 THEN 1 ELSE f.m + 1
        next_y == IF f.m + 1 = 13 THEN f.y + 1 ELSE f.y
        cand == from_ymd_or_next(next_y, next_m, 1) IN
    IF cand = Panic THEN [f EXCEPT !.next = cand, !.pc = "panic"]
    ELSE IF Lt(f.later, cand) THEN [f EXCEPT !.next = cand, !.pc = "day"]
    ELSE [f EXCEPT !.next = cand, !.months = f.months + 1, !.y = next_y,
                   !.m = next_m, !.earlier = cand]

\* One iteration of the month loop, lines 75-92 (and `let mut days = 0`).
MonthIter(f) ==
    LET next_m == IF f.m + 1 = 13 THEN 1 ELSE f.m + 1
        next_y == IF f.m + 1 = 13 THEN f.y + 1 ELSE f.y
        cand == from_ymd_or_next(next_y, next_m, f.d) IN
    IF cand = Panic THEN [f EXCEPT !.next = cand, !.pc = "panic"]
    ELSE IF Lt(f.later, cand) THEN [f EXCEPT !.next = cand, !.pc = "day"]
    ELSE [f EXCEPT !.next = cand, !.months = f.months + 1, !.y = next_y,
                   !.m = next_m, !.earlier = cand]

\* Mutant of DayIter: the loop stops one day short of `later`.
DayIter_StopsOneShort(f) ==
    IF Lt(succ(f.earlier), f.later)
    THEN [f EXCEPT !.days = f.days + 1, !.earlier = succ(f.earlier)]
    ELSE [f EXCEPT !.pc = "done"]

\* One test of the day loop, lines 95-100: another day, or the return.
DayIter(f) ==
    IF Lt(f.earlier, f.later)
    THEN [f EXCEPT !.days = f.days + 1, !.earlier = succ(f.earlier)]
    ELSE [f EXCEPT !.pc = "done"]

Iter(f) ==
    CASE f.pc = "year" -> YearIter(f)
      [] f.pc = "month" -> MonthIter(f)
      [] f.pc = "day" -> DayIter(f)
      [] OTHER -> f

RECURSIVE RunLoops(_)
RunLoops(f) == IF f.pc \in {"year", "month", "day"} THEN RunLoops(Iter(f)) ELSE f

\* The whole call: a.calendar_duration_from(b).
calendar_duration_from(a, b) == RunLoops(EnterCall(a, b))

(***************************************************************************)
(* <CalendarDuration as Display>::fmt                                      *)
(***************************************************************************)
FmtPanic == "panic: unexpected equal ordering with nonzero duration"

\* Mutant of fmt: the separator before the days is written when there were
\* years, not when anything was written.
fmt_DaysSeparator(yrs, mos, dys, ord) ==
    LET s1 == IF yrs > 0
              THEN (IF yrs > 1 THEN ToString(yrs) \o " years" ELSE "1 year")
              ELSE ""
        any1 == yrs > 0
        s2 == IF mos > 0
              THEN s1 \o (IF any1 THEN ", " ELSE "")
                      \o (IF mos > 1 THEN ToString(mos) \o " months" ELSE "1 month")
              ELSE s1
        any2 == any1 \/ mos > 0
        s3 == IF dys > 0
              THEN s2 \o (IF any1 THEN ", " ELSE "")
                      \o (IF dys > 1 THEN ToString(dys) \o " days" ELSE "1 day")
              ELSE s2
        any3 == any2 \/ dys > 0
    IN  IF any3
        THEN CASE ord = "Greater" -> s3 \o " ago"
               [] ord = "Less" -> s3 \o " to go"
               [] OTHER -> FmtPanic
        ELSE s3 \o "same day"

fmt(yrs, mos, dys, ord) ==
    LET s1 == IF yrs > 0
              THEN (IF yrs > 1 THEN ToString(yrs) \o " years" ELSE "1 year")
              ELSE ""
        any1 == yrs > 0
        s2 == IF mos > 0
              THEN s1 \o (IF any1 THEN ", " ELSE "")
                      \o (IF mos > 1 THEN ToString(mos) \o " months" ELSE "1 month")
              ELSE s1
        any2 == any1 \/ mos > 0
        s3 == IF dys > 0
              THEN s2 \o (IF any2 THEN ", " ELSE "")
                      \o (IF dys > 1 THEN ToString(dys) \o " days" ELSE "1 day")
              ELSE s2
        any3 == any2 \/ dys > 0
    IN  IF any3
        THEN CASE ord = "Greater" -> s3 \o " ago"
               [] ord = "Less" -> s3 \o " to go"
               [] OTHER -> FmtPanic
        ELSE s3 \o "same day"

(***************************************************************************)
(* State machine                                                           *)
(***************************************************************************)
Dates ==
    {dt \in [y : Years, m : 1..12, d : 1..31] :
        /\ dt.d <= DaysInMonth(dt.y, dt.m)
        /\ 12 * (dt.y - 2024) + dt.m <= MonthSpan}

StepDates == {dt \in Dates : dt.d \in StepDays}

Frame ==
    [self |-> self, other |-> other, order |-> order, later |-> later,
     earlier |-> earlier, y |-> y, m |-> m, d |-> d, next |-> next,
     years |-> years, months |-> months, days |-> days, pc |-> pc, out |-> out]

Assign(f) ==
    /\ self' = f.self /\ other' = f.other /\ order' = f.order
    /\ later' = f.later /\ earlier' = f.earlier
    /\ y' = f.y /\ m' = f.m /\ d' = f.d /\ next' = f.next
    /\ years' = f.years /\ months' = f.months /\ days' = f.days
    /\ pc' = f.pc /\ out' = f.out

\* Two dates a and b have been constructed; nothing has been called yet.
Start(a, b) ==
    /\ self = a /\ other = b /\ order = "Equal"
    /\ later = None /\ earlier = None /\ y = 0 /\ m = 0 /\ d = 0 /\ next = None
    /\ years = 0 /\ months = 0 /\ days = 0 /\ pc = "start" /\ out = ""

Init == \E a \in Dates, b \in Dates : Start(a, b)

\* self.calendar_duration_from(other), run to its return or its panic.
Call ==
    /\ pc = "start"
    /\ Assign(calendar_duration_from(self, other))

\* to_string() of the returned CalendarDuration.
Display ==
    /\ pc = "done"
    /\ out' = fmt(years, months, days, order)
    /\ pc' = IF fmt(years, months, days, order) = FmtPanic THEN "fmt_panic" ELSE "shown"
    /\ UNCHANGED <<self, other, order, later, earlier, y, m, d, next,
                   years, months, days>>

Next == Call \/ Display

Spec == Init /\ [][Next]_vars

(***************************************************************************)
(* The same call, one loop iteration per step.  A call runs on one thread  *)
(* with nothing to wait for, so a step that can be taken is taken.         *)
(***************************************************************************)
StepInit == \E a \in StepDates, b \in StepDates : Start(a, b)

Enter ==
    /\ pc = "start"
    /\ Assign(EnterCall(self, other))

YearLoop ==
    /\ pc = "year"
    /\ Assign(YearIter(Frame))

MonthLoop ==
    /\ pc = "month"
    /\ Assign(MonthIter(Frame))

DayLoop ==
    /\ pc = "day"
    /\ Assign(DayIter(Frame))

StepNext == Enter \/ YearLoop \/ MonthLoop \/ DayLoop

StepSpec == StepInit /\ [][StepNext]_vars /\ WF_vars(StepNext)

(***************************************************************************)
(* from_ymd_or_next called on its own, on any month 1..12 and day 1..31.   *)
(***************************************************************************)
CtorInit ==
    /\ y \in Years /\ m \in 1..12 /\ d \in 1..31
    /\ self = None /\ other = None /\ order = "Equal"
    /\ later = None /\ earlier = None /\ next = None
    /\ years = 0 /\ months = 0 /\ days = 0 /\ pc = "ctor" /\ out = ""

Construct ==
    /\ pc = "ctor"
    /\ next' = from_ymd_or_next(y, m, d)
    /\ pc' = IF from_ymd_or_next(y, m, d) = Panic THEN "panic" ELSE "constructed"
    /\ UNCHANGED <<self, other, order, later, earlier, y, m, d,
                   years, months, days, out>>

CtorNext == Construct

CtorSpec == CtorInit /\ [][CtorNext]_vars

(***************************************************************************)
(* Display of any CalendarDuration: the fields are public, so a value need *)
(* not come from calendar_duration_from.                                   *)
(***************************************************************************)
Orderings == {"Less", "Equal", "Greater"}

FmtInit ==
    /\ years \in 0..MaxFmtYears /\ months \in 0..MaxFmtMonths
    /\ days \in 0..MaxFmtDays /\ order \in Orderings
    /\ self = None /\ other = None /\ later = None /\ earlier = None
    /\ y = 0 /\ m = 0 /\ d = 0 /\ next = None /\ pc = "done" /\ out = ""

FmtNext == Display

FmtSpec == FmtInit /\ [][FmtNext]_vars

(***************************************************************************)
(* Properties                                                              *)
(***************************************************************************)
Date(yy, mm, dd) == [y |-> yy, m |-> mm, d |-> dd]

\* The call has ended: it returned (and maybe was rendered) or it panicked.
Returned == pc \in {"done", "shown", "fmt_panic"}
Ended == Returned \/ pc = "panic"

\* C1: a.calendar_duration_from(a) never panics, returns (0, 0, 0) with
\* order Equal, and renders as "same day".
C1_SameDate ==
    (self = other /\ Ended) =>
        /\ pc # "panic" /\ pc # "fmt_panic"
        /\ years = 0 /\ months = 0 /\ days = 0 /\ order = "Equal"
        /\ (pc = "shown" => out = "same day")

\* C2: whenever the call returns, days is in 0..30.
C2_DaysBelow31 == Returned => days \in 0..30

\* C3: whenever the call returns, months is in 0..11.
C3_MonthsBelow12 == Returned => months \in 0..11

C3_Witness == pc = "done" /\ months = 11 /\ years = 0 /\ days > 0

\* C4: against 2025-03-15 the start dates 2024-12-29, 2024-12-30, 2024-12-31
\* and 2025-01-01 give (0, 2, 14) and 2025-01-02 gives (0, 2, 13).
C4_WalkToMarch15 ==
    LET mar15 == Date(2025, 3, 15)
        starts14 == {Date(2024, 12, 29), Date(2024, 12, 30), Date(2024, 12, 31),
                     Date(2025, 1, 1)}
        start13 == Date(2025, 1, 2)
        start == IF self = mar15 THEN other ELSE self
    IN  (Ended /\ mar15 \in {self, other}) =>
            /\ start \in starts14 =>
                 pc # "panic" /\ <<years, months, days>> = <<0, 2, 14>>
            /\ start = start13 =>
                 pc # "panic" /\ <<years, months, days>> = <<0, 2, 13>>

\* C5: from_ymd_or_next(y, 2, d) for a day d in 29..31 that February of y
\* does not have returns March 1 of y.
C5_FebruaryRollsToMarch1 ==
    (pc \in {"constructed", "panic"} /\ m = 2 /\ d \in {29, 30, 31}
        /\ from_ymd(y, 2, d) = None)
    => next = Date(y, 3, 1)

\* C6: for a # b, a.calendar_duration_from(b) and b.calendar_duration_from(a)
\* both return or both panic, and when they return they agree on years,
\* months and days and have opposite, non-Equal orders.
C6_Swap ==
    (self # other /\ pc \in {"done", "panic"}) =>
        LET r == calendar_duration_from(other, self) IN
        /\ r.pc = pc
        /\ pc = "done" =>
             /\ r.years = years /\ r.months = months /\ r.days = days
             /\ {r.order, order} = {"Less", "Greater"}

C6_Witness ==
    pc = "done" /\ order = "Less" /\ years > 0 /\ months > 0 /\ days > 0

\* C7: whenever the call returns, years, months and days are all zero exactly
\* when the dates are equal, which is exactly when order is Equal; so
\* Display never panics on a returned value.
C7_ZeroIffEqual ==
    Returned =>
        /\ (years = 0 /\ months = 0 /\ days = 0) <=> (self = other)
        /\ (self = other) <=> (order = "Equal")
        /\ pc # "fmt_panic"

C7_Witness == pc = "shown" /\ self = other /\ out = "same day"

\* C8: Display of a value with a non-zero component and order # Equal is the
\* non-zero components in the order years, months, days, each "<N> unit"
\* with an "s" iff N > 1, joined by ", ", then " ago" for Greater and
\* " to go" for Less; a value with all components zero renders "same day".
Component(n, unit) == ToString(n) \o " " \o unit \o (IF n > 1 THEN "s" ELSE "")

RECURSIVE Join(_)
Join(parts) ==
    IF Len(parts) = 0 THEN ""
    ELSE IF Len(parts) = 1 THEN Head(parts)
    ELSE Head(parts) \o ", " \o Join(Tail(parts))

NonZero(part) == part.n > 0

Phrase ==
    LET parts == SelectSeq(<<[n |-> years, unit |-> "year"],
                             [n |-> months, unit |-> "month"],
                             [n |-> days, unit |-> "day"]>>, NonZero)
    IN  Join([i \in 1..Len(parts) |-> Component(parts[i].n, parts[i].unit)])

Candidate ==
    IF pc = "year" THEN YearIter(Frame).next ELSE MonthIter(Frame).next

C9_Terminates ==
    /\ [](pc \in {"year", "month"} =>
             Candidate = Panic \/ Lt(earlier, Candidate))
    /\ [](pc \in {"year", "month", "day", "done"} => ~Lt(later, earlier))
    /\ [](pc = "done" => earlier = later)
    /\ <>(pc \in {"done", "panic"})

C9_Witness == pc = "done" /\ years > 0 /\ months > 0 /\ days > 0

\* C10: the later date is from_ymd_or_next of the anchor's year and month
\* advanced by 12 * years + months months, with the anchor's day of the
\* month, followed by `days` applications of succ.
RECURSIVE SuccTimes(_, _)
SuccTimes(date, n) ==
    IF n = 0 \/ date \in {None, Panic} THEN date ELSE SuccTimes(succ(date), n - 1)

C10_RoundTrip ==
    Returned =>
        LET lo == IF Lt(other, self) THEN other ELSE self
            hi == IF Lt(other, self) THEN self ELSE other
            total == 12 * lo.y + (lo.m - 1) + 12 * years + months
            base == from_ymd_or_next(total \div 12, (total % 12) + 1, lo.d)
        IN  SuccTimes(base, days) = hi

C10_Witness ==
    pc = "done" /\ years = 0 /\ months = 2 /\ days = 1
        /\ earlier = Date(2024, 8, 31) /\ d = 30 /\ m = 8

====
